---- MODULE Spec2Model ----
(***************************************************************************)
(* Order lifecycle and real-time fan-out of the restaurant backend.        *)
(* Two servers implement the same routes: the relational one               *)
(* (src/server-postgres.js) and the document-store one                     *)
(* (src/unnamed/part_001), the latter with an in-memory fallback list.     *)
(* A handler runs to its first await in one step; the store call it awaits *)
(* and the continuation after it are separate steps, so that handlers      *)
(* interleave where the event loop lets them. Socket connections join      *)
(* rooms and receive what is emitted to them. Each specification below     *)
(* explores one part of the behaviour: the order lifecycle, placement,     *)
(* racing updates, rooms, a failing notifier, reads, and the menu.         *)
(***************************************************************************)
EXTENDS Integers, Sequences, FiniteSets, Bags, TLC

(* ---------------------------- bounds ----------------------------------- *)
MaxReq == 3
MaxInFlight == 2
MaxClock == 1
MaxConn == 2

(* ---------------------------- values ----------------------------------- *)
\* An optional JavaScript value: <<>> is undefined, <<v>> is the value v.
None == <<>>
Some(v) == <<v>>

\* JavaScript truthiness of an optional number: undefined and 0 are falsy.
Truthy(x) == x # None /\ x[1] # 0

validStatuses == <<"pending", "confirmed", "preparing", "ready", "served", "cancelled">>

includes(arr, v) == \E i \in 1..Len(arr) : arr[i] = v

QueryStatuses == {validStatuses[i] : i \in 1..Len(validStatuses)} \cup {"done"}

\* Line items as the client sends them; prepTime and prep_time are optional.
Pizza == [name |-> "Pizza", prepTime |-> Some(20), prep_time |-> None]
Salad == [name |-> "Salad", prepTime |-> Some(10), prep_time |-> None]
Bread == [name |-> "Bread", prepTime |-> None, prep_time |-> None]
Water == [name |-> "Water", prepTime |-> Some(0), prep_time |-> None]
Curry == [name |-> "Curry", prepTime |-> None, prep_time |-> Some(30)]

ItemLists == {<<>>, <<Pizza>>, <<Bread>>, <<Water>>, <<Curry>>, <<Salad, Pizza>>, <<Salad, Bread>>}

TableNos == {None, Some(0), Some(-1), Some(1), Some(2)}

Totals == {None, Some(698)}

SetMax(S) == CHOOSE m \in S : \A x \in S : x <= m

\* item.prepTime || item.prep_time || 15 (relational), item.prepTime || 15 (document)
prepOf(be, item) ==
    IF Truthy(item.prepTime) THEN item.prepTime[1]
    ELSE IF be = "postgres" /\ Truthy(item.prep_time) THEN item.prep_time[1]
    ELSE 15

\* A variant that takes the first item's time instead of the maximum.
estimatedTimeOfFirstItem(be, items) == prepOf(be, items[1]) + 5

\* Math.max(...items.map(...)) + 5
estimatedTimeOf(be, items) == SetMax({prepOf(be, items[i]) : i \in 1..Len(items)}) + 5

(* ---------------------------- ids -------------------------------------- *)
Digits == <<"0", "1", "2", "3", "4", "5", "6", "7", "8", "9">>
HexChars == {Digits[i] : i \in 1..10} \cup {"a", "b", "c", "d", "e", "f"}

IsDigit(c) == \E i \in 1..10 : Digits[i] = c
DigitVal(c) == (CHOOSE i \in 1..10 : Digits[i] = c) - 1

\* Number.prototype.toString() for a non-negative integer.
RECURSIVE toString(_)
toString(n) == IF n < 10 THEN <<Digits[n + 1]>> ELSE toString(n \div 10) \o <<Digits[(n % 10) + 1]>>

\* parseInt(s): the value of the longest prefix of digits; <<>> stands for NaN.
RECURSIVE digitsValue(_, _)
digitsValue(s, acc) ==
    IF s = <<>> \/ ~IsDigit(Head(s)) THEN acc
    ELSE digitsValue(Tail(s), acc * 10 + DigitVal(Head(s)))

parseInt(s) == IF s = <<>> \/ ~IsDigit(Head(s)) THEN None ELSE Some(digitsValue(s, 0))

\* A 24-character hexadecimal ObjectId, the n-th one generated.
ObjectId(n) == [i \in 1..24 |-> IF i = 24 THEN Digits[n + 1] ELSE "0"]

\* What the document store's driver accepts as an _id: 24 hex characters or any 12 characters.
isValidObjectId(s) == (Len(s) = 24 /\ \A i \in 1..24 : s[i] \in HexChars) \/ Len(s) = 12

IdParams(be) ==
    IF be = "postgres"
    THEN {<<"1">>, <<"2">>, <<"1", "x">>, <<"x">>}
    ELSE {ObjectId(1), ObjectId(2), toString(0)}

\* The socket.io connections the model follows.
Conns == 1..MaxConn

\* A connection that is not open: in no room, nothing received.
NoSocket == [up |-> FALSE, rooms |-> {}, inbox |-> <<>>]

(* ---------------------------- state ------------------------------------ *)
VARIABLES
    backend,         \* which server runs: "postgres" or "mongo"
    connected,       \* the store is reachable (mongoose readyState is 1)
    orders,          \* the persistent store: orders table / orders collection
    inMemoryOrders,  \* the fallback list of the document-store server
    now,             \* Date.now()
    reqs,            \* the bag of handlers suspended at an await
    resp,            \* the response last sent, with the events its handler emitted
    nreq,            \* requests received so far
    sockets          \* the socket.io connections: whether up, rooms joined, events received

vars == <<backend, connected, orders, inMemoryOrders, now, reqs, resp, nreq, sockets>>

\* A request's inputs before any is set. tableQuery and category are query-string
\* parameters: character strings, absent when empty.
NoArgs == [tableNo |-> None, items |-> <<>>, total |-> None, id |-> <<>>, status |-> "undefined",
           tableQuery |-> <<>>, category |-> "undefined"]

\* A handler's locals before it has set any: op and args identify the request, pc is
\* where it is suspended, est and ts are estimatedTime and Date.now() as it evaluated
\* them, res and doc are what the awaited store call gave, prior is the updatedAt the
\* addressed order had when the request came in.
Idle == [op |-> "idle", pc |-> "idle", args |-> NoArgs, est |-> 0, ts |-> 0,
         prior |-> None, res |-> "none", doc |-> None]

NoResp == [op |-> "none", args |-> NoArgs, code |-> 0, data |-> None, events |-> <<>>,
           res |-> "none"]

Init ==
    /\ backend \in {"postgres", "mongo"}
    /\ connected = FALSE
    /\ orders = {}
    /\ inMemoryOrders = <<>>
    /\ now = 0
    /\ reqs = EmptyBag
    /\ resp = NoResp
    /\ nreq = 0
    /\ sockets = [c \in Conns |-> NoSocket]

(* ---------------------------- the order store --------------------------- *)
\* Order.create of the relational model: the inserted row, with a serial id and
\* both timestamps set by the store at the insert.
pgCreate(rows, r, t) ==
    [id |-> Cardinality(rows) + 1, tableNo |-> r.args.tableNo[1], items |-> r.args.items,
     total |-> r.args.total[1], status |-> "pending", estimatedTime |-> r.est,
     createdAt |-> t, updatedAt |-> Some(t)]

\* The item sub-documents the order schema keeps: it declares no prepTime or prep_time.
schemaItems(items) == [i \in 1..Len(items) |-> [name |-> items[i].name]]

\* new Order({tableNo, items, total, estimatedTime}) and order.save(): a fresh ObjectId,
\* status from the schema default, both timestamps from Date.now at construction.
mongoSave(rows, r) ==
    [id |-> ObjectId(Cardinality(rows) + 1), tableNo |-> r.args.tableNo[1],
     items |-> schemaItems(r.args.items), total |-> r.args.total[1], status |-> "pending",
     estimatedTime |-> r.est, createdAt |-> r.ts, updatedAt |-> Some(r.ts)]

createdOrder(be, rows, r, t) == IF be = "postgres" THEN pgCreate(rows, r, t) ELSE mongoSave(rows, r)

\* The stored orders the id parameter of a status update addresses:
\* Order.updateStatus(parseInt(orderId), ...) / Order.findByIdAndUpdate(req.params.id, ...).
matching(be, rows, id) ==
    IF be = "postgres"
    THEN {o \in rows : Some(o.id) = parseInt(id)}
    ELSE {o \in rows : o.id = id}

\* Order.findById(req.params.id) of the relational model: the row with that id.
pgFindById(rows, id) == {o \in rows : toString(o.id) = id}

\* Order.findById(req.params.id) of the document model.
mongoFindById(rows, id) == {o \in rows : o.id = id}

findById(be, rows, id) == IF be = "postgres" THEN pgFindById(rows, id) ELSE mongoFindById(rows, id)

\* The time Order.updateStatus of the relational model stamps: the store's clock.
pgStamp(t) == t

\* The time the document server stamps: the Date.now() it passed to findByIdAndUpdate.
mongoStamp(r) == r.ts

stampOf(be, r, t) == IF be = "postgres" THEN pgStamp(t) ELSE mongoStamp(r)

\* A variant that stamps the time but leaves the status as it was.
withStatusStampOnly(o, status, t) == [o EXCEPT !.updatedAt = Some(t)]

\* A variant that refuses to leave the terminal statuses served and cancelled.
withStatusTerminal(o, status, t) ==
    IF o.status \in {"served", "cancelled"} THEN o
    ELSE [o EXCEPT !.status = status, !.updatedAt = Some(t)]

\* A variant that also restamps the creation time.
withStatusRestamped(o, status, t) ==
    [o EXCEPT !.status = status, !.updatedAt = Some(t), !.createdAt = t]

\* A variant where the first status written to an order stays: later writes are dropped.
withStatusFirstWins(o, status, t) ==
    IF o.status # "pending" THEN o ELSE [o EXCEPT !.status = status, !.updatedAt = Some(t)]

\* The order after a status write at time t; no transition is refused.
withStatus(o, status, t) == [o EXCEPT !.status = status, !.updatedAt = Some(t)]

\* inMemoryOrders.find(o => o._id === id): the first match, or none.
findInMemory(list, id) ==
    LET hits == {i \in 1..Len(list) : list[i].id = id}
    IN  IF hits = {} THEN None ELSE Some(list[CHOOSE i \in hits : \A j \in hits : i <= j])

(* ---------------------------- events ----------------------------------- *)
ChefRoom == <<"chef_portal">>
TableRoom(t) == <<"table_", t>>

emit(room, name, payload) == [room |-> room, name |-> name, payload |-> payload]

\* A variant that sends the confirmation to the kitchen room instead of the table's.
placeEventsToKitchen(be, tableNo, o) ==
    << emit(ChefRoom, "newOrder", o), emit(ChefRoom, "orderConfirmed", o) >>

\* What POST /api/order emits for the created order o.
placeEvents(be, tableNo, o) ==
    IF be = "postgres"
    THEN << emit(ChefRoom, "newOrder",
                 [orderId |-> o.id, tableNo |-> o.tableNo, items |-> o.items, total |-> o.total,
                  status |-> o.status, createdAt |-> o.createdAt,
                  estimatedTime |-> o.estimatedTime]),
            emit(TableRoom(tableNo), "orderConfirmed",
                 [orderId |-> o.id, status |-> o.status, estimatedTime |-> o.estimatedTime]) >>
    ELSE << emit(ChefRoom, "newOrder", o),
            emit(TableRoom(tableNo), "orderConfirmed", o) >>

\* What PUT /api/order/:id/status emits for the order o it holds after the write.
updateEvents(be, o) ==
    IF be = "postgres"
    THEN << emit(TableRoom(o.tableNo), "orderStatusUpdate",
                 [orderId |-> o.id, status |-> o.status, updatedAt |-> o.updatedAt]),
            emit(ChefRoom, "orderStatusUpdated", [orderId |-> o.id, status |-> o.status]) >>
    ELSE << emit(TableRoom(o.tableNo), "orderStatusUpdate", [orderId |-> o.id, status |-> o.status]),
            emit(ChefRoom, "orderStatusUpdated", [orderId |-> o.id, status |-> o.status]) >>

\* The events of evs sent to the rooms in rs, in order.
addressed(evs, rs) == SelectSeq(evs, LAMBDA e : e.room \in rs)

\* A variant that sends every event to every open connection, whatever its rooms.
publishToAll(socks, evs) ==
    [c \in Conns |-> IF socks[c].up THEN [socks[c] EXCEPT !.inbox = @ \o evs] ELSE socks[c]]

\* io.to(room).emit(name, payload) for each event of evs: each goes to the connections
\* that are in its room at this moment.
publish(socks, evs) ==
    [c \in Conns |-> [socks[c] EXCEPT !.inbox = @ \o addressed(evs, socks[c].rooms)]]

(* ---------------------------- handlers --------------------------------- *)
\* A handler suspends at an await, and resumes (or ends) later.
CanSuspend == BagCardinality(reqs) < MaxInFlight
Suspended == BagToSet(reqs)
suspend(bag, r) == bag (+) SetToBag({r})
resume(bag, r) == bag (-) SetToBag({r})

\* A response: status code, body, the events the handler emitted on the way, and how
\* the store call it awaited ended ("none" when it made none, "memory" for the fallback).
respond(op, args, code, data, events, res) ==
    [op |-> op, args |-> args, code |-> code, data |-> data, events |-> events, res |-> res]

\* if (!tableNo || !items || !items.length || !total)
placeInvalid(args) == ~Truthy(args.tableNo) \/ args.items = <<>> \/ ~Truthy(args.total)

\* The order the in-memory fallback builds: no updatedAt, id is Date.now().toString().
fallbackOrder(args, est, t) ==
    [id |-> toString(t), tableNo |-> args.tableNo[1], items |-> args.items,
     total |-> args.total[1], status |-> "pending", estimatedTime |-> est,
     createdAt |-> t, updatedAt |-> None]

\* POST /api/order up to its first await; the fallback path has no await.
PlaceOrder(tableNo, items, total) ==
    LET args == [NoArgs EXCEPT !.tableNo = tableNo, !.items = items, !.total = total]
    IN  /\ nreq < MaxReq
        /\ nreq' = nreq + 1
        /\ IF placeInvalid(args)
           THEN /\ resp' = respond("place", args, 400, None, <<>>, "none")
                /\ UNCHANGED <<inMemoryOrders, reqs, sockets>>
           ELSE LET est == estimatedTimeOf(backend, items)
                IN  IF backend = "mongo" /\ ~connected
                    THEN LET order == fallbackOrder(args, est, now)
                         IN  /\ inMemoryOrders' = Append(inMemoryOrders, order)
                             /\ resp' = respond("place", args, 201, Some(order),
                                                placeEvents(backend, args.tableNo[1], order), "memory")
                             /\ sockets' = publish(sockets, resp'.events)
                             /\ UNCHANGED reqs
                    ELSE /\ CanSuspend
                         /\ reqs' = suspend(reqs,
                                [Idle EXCEPT !.op = "place", !.pc = "store", !.args = args,
                                             !.est = est, !.ts = now])
                         /\ UNCHANGED <<inMemoryOrders, resp, sockets>>
        /\ UNCHANGED <<backend, connected, orders, now>>

\* The awaited Order.create / order.save(): the insert, or its failure.
StoreCreate(r) ==
    /\ r.op = "place" /\ r.pc = "store"
    /\ IF connected
       THEN LET order == createdOrder(backend, orders, r, now)
            IN  /\ orders' = orders \cup {order}
                /\ reqs' = suspend(resume(reqs, r),
                                   [r EXCEPT !.pc = "cont", !.res = "ok", !.doc = Some(order)])
       ELSE /\ reqs' = suspend(resume(reqs, r), [r EXCEPT !.pc = "cont", !.res = "error"])
            /\ UNCHANGED orders
    /\ UNCHANGED <<backend, connected, inMemoryOrders, now, resp, nreq, sockets>>

\* POST /api/order after the await: both emits and the 201, or the catch block's 500.
PlaceOrderCont(r) ==
        /\ r.op = "place" /\ r.pc = "cont"
        /\ resp' = IF r.res = "ok"
                   THEN respond("place", r.args, 201, r.doc,
                                placeEvents(backend, r.args.tableNo[1], r.doc[1]), "ok")
                   ELSE respond("place", r.args, 500, None, <<>>, "error")
        /\ sockets' = publish(sockets, resp'.events)
        /\ reqs' = resume(reqs, r)
        /\ UNCHANGED <<backend, connected, orders, inMemoryOrders, now, nreq>>

\* GET /api/order/:id. The read and the response are taken as one step: a read
\* changes nothing, so nothing is lost but responses older than the store.
GetOrder(id) ==
    LET args == [NoArgs EXCEPT !.id = id]
        found == findById(backend, orders, id)
    IN  /\ nreq < MaxReq
        /\ nreq' = nreq + 1
        /\ resp' =
             IF backend = "mongo" /\ ~connected
             THEN LET o == findInMemory(inMemoryOrders, id)
                  IN  IF o = None THEN respond("get", args, 404, None, <<>>, "memory")
                      ELSE respond("get", args, 200, o, <<>>, "memory")
             ELSE IF ~connected \/ (backend = "mongo" /\ ~isValidObjectId(id))
             THEN respond("get", args, 500, None, <<>>, "error")
             ELSE IF found = {} THEN respond("get", args, 404, None, <<>>, "null")
             ELSE respond("get", args, 200, Some(CHOOSE o \in found : TRUE), <<>>, "ok")
        /\ UNCHANGED <<backend, connected, orders, inMemoryOrders, now, reqs, sockets>>

\* Order.findAll(filters) of the relational model: the rows that match every filter given.
pgFindAll(rows, status, tableNo) ==
    {o \in rows : (status # "undefined" => o.status = status)
                  /\ (tableNo # None => o.tableNo = tableNo[1])}

\* Order.find(filter) of the document model; the handler builds the filter from status only.
mongoFind(rows, status) == {o \in rows : status # "undefined" => o.status = status}

\* The rows in an order a sort by creation time, newest first, can give them.
newestFirst(S) ==
    {q \in [1..Cardinality(S) -> S] :
        /\ \A i \in DOMAIN q : \A j \in DOMAIN q : i < j => q[i] # q[j]
        /\ \A i \in DOMAIN q : \A j \in DOMAIN q : i < j => q[i].createdAt >= q[j].createdAt}

\* An order as GET /api/orders lists it: the relational server renames id to orderId.
listed(be, o) ==
    IF be = "postgres"
    THEN [orderId |-> o.id, tableNo |-> o.tableNo, items |-> o.items, total |-> o.total,
          status |-> o.status, estimatedTime |-> o.estimatedTime, createdAt |-> o.createdAt,
          updatedAt |-> o.updatedAt]
    ELSE o

\* GET /api/orders?status=&tableNo=. Read and response are one step. The relational
\* server filters on status and parseInt(tableNo); the document server on status only,
\* and it asks the collection whatever the connection state, never the fallback list.
ListOrders(status, tableQuery) ==
    LET args == [NoArgs EXCEPT !.status = status, !.tableQuery = tableQuery]
        found == IF backend = "postgres"
                 THEN pgFindAll(orders, status,
                                IF tableQuery = <<>> THEN None ELSE parseInt(tableQuery))
                 ELSE mongoFind(orders, status)
    IN  /\ nreq < MaxReq
        /\ nreq' = nreq + 1
        /\ IF ~connected
           THEN resp' = respond("list", args, 500, None, <<>>, "error")
           ELSE \E q \in newestFirst(found) :
                   resp' = respond("list", args, 200, [i \in DOMAIN q |-> listed(backend, q[i])],
                                   <<>>, "ok")
        /\ UNCHANGED <<backend, connected, orders, inMemoryOrders, now, reqs, sockets>>

\* The catalog file ./seedData: one item of each category, all on offer.
seedData ==
    << [name |-> "Samosa", category |-> "appetizer", available |-> TRUE],
       [name |-> "Biryani", category |-> "main", available |-> TRUE],
       [name |-> "Kulfi", category |-> "dessert", available |-> TRUE],
       [name |-> "Lassi", category |-> "beverage", available |-> TRUE] >>

\* The stored catalog: as seeded from the file, with one item since taken off the menu.
menuItems == [i \in DOMAIN seedData |->
                 IF seedData[i].name = "Kulfi" THEN [seedData[i] EXCEPT !.available = FALSE]
                 ELSE seedData[i]]

Categories == {"undefined", "appetizer", "main", "dessert", "beverage"}

\* menuData.filter(item => item.category === category), or all of it without a category.
byCategory(items, category) ==
    SelectSeq(items, LAMBDA it : category = "undefined" \/ it.category = category)

\* MenuItem.find({category, available: true}) / MenuItem.findAll({category, available: true}).
availableOnly(items, category) == SelectSeq(byCategory(items, category), LAMBDA it : it.available)

\* GET /api/menu?category= up to its await. The document server answers from the
\* catalog file at once when the store is not connected, filtered by category only.
GetMenu(category) ==
    LET args == [NoArgs EXCEPT !.category = category]
    IN  /\ nreq < MaxReq
        /\ nreq' = nreq + 1
        /\ IF backend = "mongo" /\ ~connected
           THEN /\ resp' = respond("menu", args, 200, byCategory(seedData, category), <<>>, "memory")
                /\ UNCHANGED reqs
           ELSE /\ CanSuspend
                /\ reqs' = suspend(reqs, [Idle EXCEPT !.op = "menu", !.pc = "store", !.args = args])
                /\ UNCHANGED resp
        /\ UNCHANGED <<backend, connected, orders, inMemoryOrders, now, sockets>>

\* GET /api/menu when the awaited find ends: the items found, or the catch block, where
\* the document server answers with the whole catalog file and the relational one with 500.
GetMenuCont(r) ==
    /\ r.op = "menu" /\ r.pc = "store"
    /\ resp' = IF connected
               THEN respond("menu", r.args, 200, availableOnly(menuItems, r.args.category), <<>>, "ok")
               ELSE IF backend = "mongo"
               THEN respond("menu", r.args, 200, seedData, <<>>, "error")
               ELSE respond("menu", r.args, 500, None, <<>>, "error")
    /\ reqs' = resume(reqs, r)
    /\ UNCHANGED <<backend, connected, orders, inMemoryOrders, now, nreq, sockets>>

\* isNaN(parseInt(orderId)) of the relational server; the document server has no id check.
idInvalid(be, id) == be = "postgres" /\ parseInt(id) = None

\* A variant that only checks that a status was sent.
statusInvalidWhenMissing(status) == status = "undefined"

\* if (!validStatuses.includes(status))
statusInvalid(status) == ~includes(validStatuses, status)

\* PUT /api/order/:id/status up to its first await. The document server evaluates
\* Date.now() here, as an argument of findByIdAndUpdate.
UpdateStatus(id, status) ==
    LET args == [NoArgs EXCEPT !.id = id, !.status = status]
        hit == matching(backend, orders, id)
    IN  /\ nreq < MaxReq
        /\ nreq' = nreq + 1
        /\ IF idInvalid(backend, id) \/ statusInvalid(status)
           THEN /\ resp' = respond("update", args, 400, None, <<>>, "none")
                /\ UNCHANGED reqs
           ELSE /\ CanSuspend
                /\ reqs' = suspend(reqs,
                       [Idle EXCEPT !.op = "update", !.pc = "store", !.args = args, !.ts = now,
                                    !.prior = IF hit = {} THEN None
                                              ELSE (CHOOSE o \in hit : TRUE).updatedAt])
                /\ UNCHANGED resp
        /\ UNCHANGED <<backend, connected, orders, inMemoryOrders, now, sockets>>

\* The awaited Order.updateStatus / Order.findByIdAndUpdate: the write, null when no
\* order has the id, or a rejection (store unreachable, id not castable to ObjectId).
StoreUpdate(r) ==
    LET hit == matching(backend, orders, r.args.id)
    IN  /\ r.op = "update" /\ r.pc = "store"
        /\ IF ~connected \/ (backend = "mongo" /\ ~isValidObjectId(r.args.id))
           THEN /\ reqs' = suspend(resume(reqs, r), [r EXCEPT !.pc = "cont", !.res = "error"])
                /\ UNCHANGED orders
           ELSE IF hit = {}
           THEN /\ reqs' = suspend(resume(reqs, r), [r EXCEPT !.pc = "cont", !.res = "null"])
                /\ UNCHANGED orders
           ELSE LET old == CHOOSE o \in hit : TRUE
                    new == withStatus(old, r.args.status, stampOf(backend, r, now))
                IN  /\ orders' = (orders \ {old}) \cup {new}
                    /\ reqs' = suspend(resume(reqs, r),
                                       [r EXCEPT !.pc = "cont", !.res = "ok", !.doc = Some(new)])
        /\ UNCHANGED <<backend, connected, inMemoryOrders, now, resp, nreq, sockets>>

\* The order the handler reports after a successful write: the relational server reads
\* it again (Order.findById), the document server uses the document the write returned.
reportedOrder(be, rows, r) ==
    IF be = "postgres" THEN CHOOSE o \in rows : o.id = r.doc[1].id ELSE r.doc[1]

\* A variant without the null check: the missing order ends in the catch block.
UpdateStatusContNoNullCheck(r) ==
        /\ r.op = "update" /\ r.pc = "cont"
        /\ resp' =
             IF r.res # "ok" \/ (backend = "postgres" /\ ~connected)
             THEN respond("update", r.args, 500, None, <<>>,
                          IF r.res = "ok" THEN "ok" ELSE r.res)
             ELSE LET o == reportedOrder(backend, orders, r)
                  IN  respond("update", r.args, 200, Some(o), updateEvents(backend, o), "ok")
        /\ sockets' = publish(sockets, resp'.events)
        /\ reqs' = resume(reqs, r)
        /\ UNCHANGED <<backend, connected, orders, inMemoryOrders, now, nreq>>

\* A variant that tells the kitchen before it looks at what the store call gave.
UpdateStatusContEmitFirst(r) ==
        /\ r.op = "update" /\ r.pc = "cont"
        /\ resp' =
             LET early == << emit(ChefRoom, "orderStatusUpdated",
                                  [orderId |-> r.args.id, status |-> r.args.status]) >>
             IN  IF r.res = "error" THEN respond("update", r.args, 500, None, early, "error")
                 ELSE IF r.res = "null" THEN respond("update", r.args, 404, None, early, "null")
                 ELSE IF backend = "postgres" /\ ~connected
                 THEN respond("update", r.args, 500, None, early, "ok")
                 ELSE LET o == reportedOrder(backend, orders, r)
                      IN  respond("update", r.args, 200, Some(o), updateEvents(backend, o), "ok")
        /\ sockets' = publish(sockets, resp'.events)
        /\ reqs' = resume(reqs, r)
        /\ UNCHANGED <<backend, connected, orders, inMemoryOrders, now, nreq>>

\* PUT /api/order/:id/status after the write: 404 on null, else both emits and the 200;
\* a rejection of the write or of the second read ends in the catch block's 500.
UpdateStatusCont(r) ==
        /\ r.op = "update" /\ r.pc = "cont"
        /\ resp' =
             IF r.res = "error" THEN respond("update", r.args, 500, None, <<>>, "error")
             ELSE IF r.res = "null" THEN respond("update", r.args, 404, None, <<>>, "null")
             ELSE IF backend = "postgres" /\ ~connected
             THEN respond("update", r.args, 500, None, <<>>, "ok")
             ELSE LET o == reportedOrder(backend, orders, r)
                  IN  respond("update", r.args, 200, Some(o), updateEvents(backend, o), "ok")
        /\ sockets' = publish(sockets, resp'.events)
        /\ reqs' = resume(reqs, r)
        /\ UNCHANGED <<backend, connected, orders, inMemoryOrders, now, nreq>>

\* The events that went out before the k-th emit of evs raised.
emitted(evs, k) == SubSeq(evs, 1, k - 1)

\* POST /api/order after the await when one of its emits raises: both emits are
\* inside the try block, so the catch block answers 500; the order is stored.
PlaceOrderContEmitThrows(r) ==
        /\ r.op = "place" /\ r.pc = "cont" /\ r.res = "ok"
        /\ \E k \in 1..2 :
              resp' = respond("place", r.args, 500, None,
                              emitted(placeEvents(backend, r.args.tableNo[1], r.doc[1]), k), "ok")
        /\ sockets' = publish(sockets, resp'.events)
        /\ reqs' = resume(reqs, r)
        /\ UNCHANGED <<backend, connected, orders, inMemoryOrders, now, nreq>>

\* PUT /api/order/:id/status after a write that succeeded when one of its emits
\* raises: the catch block answers 500; the new status is stored.
UpdateStatusContEmitThrows(r) ==
        /\ r.op = "update" /\ r.pc = "cont" /\ r.res = "ok"
        /\ backend = "postgres" => connected
        /\ \E k \in 1..2 :
              resp' = respond("update", r.args, 500, None,
                              emitted(updateEvents(backend, reportedOrder(backend, orders, r)), k),
                              "ok")
        /\ sockets' = publish(sockets, resp'.events)
        /\ reqs' = resume(reqs, r)
        /\ UNCHANGED <<backend, connected, orders, inMemoryOrders, now, nreq>>

(* ---------------------------- environment ------------------------------ *)
\* The clock advances.
Tick ==
    /\ now < MaxClock
    /\ now' = now + 1
    /\ UNCHANGED <<backend, connected, orders, inMemoryOrders, reqs, resp, nreq, sockets>>

\* The store becomes reachable (mongoose.connect resolves, the pool reconnects).
Connect ==
    /\ ~connected
    /\ connected' = TRUE
    /\ UNCHANGED <<backend, orders, inMemoryOrders, now, reqs, resp, nreq, sockets>>

\* The store becomes unreachable.
Disconnect ==
    /\ connected
    /\ connected' = FALSE
    /\ UNCHANGED <<backend, orders, inMemoryOrders, now, reqs, resp, nreq, sockets>>

\* io.on('connection'): a client opens a socket; it is in no room yet.
SocketConnect(c) ==
    /\ ~sockets[c].up
    /\ sockets' = [sockets EXCEPT ![c] = [NoSocket EXCEPT !.up = TRUE]]
    /\ UNCHANGED <<backend, connected, orders, inMemoryOrders, now, reqs, resp, nreq>>

\* socket.on('joinTable', tableNo): socket.join('table_' + tableNo).
joinTable(c, tableNo) ==
    /\ sockets[c].up
    /\ sockets' = [sockets EXCEPT ![c].rooms = @ \cup {TableRoom(tableNo)}]
    /\ UNCHANGED <<backend, connected, orders, inMemoryOrders, now, reqs, resp, nreq>>

\* socket.on('joinChef'): socket.join('chef_portal').
joinChef(c) ==
    /\ sockets[c].up
    /\ sockets' = [sockets EXCEPT ![c].rooms = @ \cup {ChefRoom}]
    /\ UNCHANGED <<backend, connected, orders, inMemoryOrders, now, reqs, resp, nreq>>

\* socket.on('disconnect'): the handler only logs; the socket leaves its rooms and is gone.
SocketDisconnect(c) ==
    /\ sockets[c].up
    /\ sockets' = [sockets EXCEPT ![c] = NoSocket]
    /\ UNCHANGED <<backend, connected, orders, inMemoryOrders, now, reqs, resp, nreq>>

\* The steps every specification shares: store calls, continuations, environment.
Steps ==
    \/ \E r \in Suspended : StoreCreate(r)
    \/ \E r \in Suspended : PlaceOrderCont(r)
    \/ \E id \in IdParams(backend) : GetOrder(id)
    \/ Tick
    \/ Connect
    \/ Disconnect

\* Order lifecycle: representative placements, every status update, two handlers in flight.
LifecycleTableNos == {Some(1), Some(2)}
LifecycleItemLists == {<<Pizza>>}
LifecycleTotals == {Some(698)}

Next ==
    \/ \E tableNo \in LifecycleTableNos, items \in LifecycleItemLists, total \in LifecycleTotals :
          PlaceOrder(tableNo, items, total)
    \/ \E id \in IdParams(backend), status \in QueryStatuses : UpdateStatus(id, status)
    \/ \E r \in Suspended : StoreUpdate(r)
    \/ \E r \in Suspended : UpdateStatusCont(r)
    \/ Steps

Spec == Init /\ [][Next]_vars

\* Placement: every combination of table number, item list and total.
MaxBurst == 2

NextPlace ==
    \/ /\ nreq < MaxBurst
       /\ \E tableNo \in TableNos, items \in ItemLists, total \in Totals :
             PlaceOrder(tableNo, items, total)
    \/ Steps

SpecPlace == Init /\ [][NextPlace]_vars

\* Real-time fan-out: sockets come, join rooms and go while orders are placed and updated.
RoomTables == {1, 2}
RoomStatuses == {"ready"}

NextRooms ==
    \/ \E c \in Conns : SocketConnect(c)
    \/ \E c \in Conns, t \in RoomTables : joinTable(c, t)
    \/ \E c \in Conns : joinChef(c)
    \/ \E c \in Conns : SocketDisconnect(c)
    \/ /\ nreq < MaxBurst
       /\ \E tableNo \in LifecycleTableNos, items \in LifecycleItemLists, total \in LifecycleTotals :
             PlaceOrder(tableNo, items, total)
    \/ \E r \in Suspended : StoreCreate(r)
    \/ \E r \in Suspended : PlaceOrderCont(r)
    \/ /\ nreq < MaxBurst
       /\ \E id \in IdParams(backend), status \in RoomStatuses : UpdateStatus(id, status)
    \/ \E r \in Suspended : StoreUpdate(r)
    \/ \E r \in Suspended : UpdateStatusCont(r)
    \/ Connect

SpecRooms == Init /\ [][NextRooms]_vars

\* Status updates racing each other: a few placements, two target statuses, every id.
RaceStatuses == {"ready", "served"}

NextRace ==
    \/ \E tableNo \in LifecycleTableNos, items \in LifecycleItemLists, total \in LifecycleTotals :
          PlaceOrder(tableNo, items, total)
    \/ \E r \in Suspended : StoreCreate(r)
    \/ \E r \in Suspended : PlaceOrderCont(r)
    \/ \E id \in IdParams(backend), status \in RaceStatuses : UpdateStatus(id, status)
    \/ \E r \in Suspended : StoreUpdate(r)
    \/ \E r \in Suspended : UpdateStatusCont(r)
    \/ Tick
    \/ Connect
    \/ Disconnect

SpecRace == Init /\ [][NextRace]_vars

\* A notifier that can fail: an emit may raise after the store write has succeeded.
NextNotify ==
    \/ /\ nreq < MaxBurst
       /\ \E tableNo \in LifecycleTableNos, items \in LifecycleItemLists, total \in LifecycleTotals :
             PlaceOrder(tableNo, items, total)
    \/ \E r \in Suspended : StoreCreate(r)
    \/ \E r \in Suspended : PlaceOrderCont(r)
    \/ \E r \in Suspended : PlaceOrderContEmitThrows(r)
    \/ \E id \in IdParams(backend), status \in RoomStatuses : UpdateStatus(id, status)
    \/ \E r \in Suspended : StoreUpdate(r)
    \/ \E r \in Suspended : UpdateStatusCont(r)
    \/ \E r \in Suspended : UpdateStatusContEmitThrows(r)
    \/ \E c \in Conns : SocketConnect(c)
    \/ \E c \in Conns : joinChef(c)
    \/ Connect
    \/ Disconnect

SpecNotify == Init /\ [][NextNotify]_vars

\* Reading orders back: placements, status updates and the two read routes, while the
\* store connection comes and goes.
ListStatuses == {"undefined", "pending", "ready"}
TableQueries == {<<>>, <<"1">>, <<"2">>}

NextRead ==
    \/ /\ nreq < MaxBurst
       /\ \E tableNo \in LifecycleTableNos, items \in LifecycleItemLists, total \in LifecycleTotals :
             PlaceOrder(tableNo, items, total)
    \/ \E r \in Suspended : StoreCreate(r)
    \/ \E r \in Suspended : PlaceOrderCont(r)
    \/ \E id \in IdParams(backend), status \in RoomStatuses : UpdateStatus(id, status)
    \/ \E r \in Suspended : StoreUpdate(r)
    \/ \E r \in Suspended : UpdateStatusCont(r)
    \/ \E id \in IdParams(backend) : GetOrder(id)
    \/ \E status \in ListStatuses, tableQuery \in TableQueries : ListOrders(status, tableQuery)
    \/ Tick
    \/ Connect
    \/ Disconnect

SpecRead == Init /\ [][NextRead]_vars

\* The menu listing, while the store connection comes and goes.
NextMenu ==
    \/ \E category \in Categories : GetMenu(category)
    \/ \E r \in Suspended : GetMenuCont(r)
    \/ Connect
    \/ Disconnect

SpecMenu == Init /\ [][NextMenu]_vars

(* ---------------------------- properties ------------------------------- *)
\* Every order held by the persistent store or by the fallback list.
AllStored == orders \cup {inMemoryOrders[i] : i \in 1..Len(inMemoryOrders)}

\* e is 5 more than the largest of the times.
IsMaxPlus5(e, times) ==
    /\ \E i \in 1..Len(times) : e = times[i] + 5
    /\ \A i \in 1..Len(times) : times[i] + 5 <= e

Placed == resp.op = "place" /\ resp.code = 201

\* The claim's reading of an item's time: its prepTime when it has one, else 15.
C1ClaimedPrep(item) == IF item.prepTime # None THEN item.prepTime[1] ELSE 15

\* C1 as stated: a placement that passes validation stores and returns an order with
\* status pending and estimatedTime = 5 + max(prepTime, 15 where an item has none).
C1Original ==
    (Placed /\ resp.args.tableNo \in {Some(1), Some(2)}) =>
        /\ resp.data[1] \in AllStored
        /\ resp.data[1].status = "pending"
        /\ IsMaxPlus5(resp.data[1].estimatedTime,
                      [i \in 1..Len(resp.args.items) |-> C1ClaimedPrep(resp.args.items[i])])

\* What the servers count for an item: a prepTime that is present and not 0; else, in
\* the relational server only, a prep_time that is present and not 0; else 15.
C1CountedPrep(item) ==
    CASE item.prepTime \notin {None, Some(0)} -> item.prepTime[1]
      [] item.prepTime \in {None, Some(0)} /\ backend = "postgres"
           /\ item.prep_time \notin {None, Some(0)} -> item.prep_time[1]
      [] OTHER -> 15

\* C1 amended: the stored and returned order has status pending and estimatedTime =
\* 5 + max over the items of the counted time (prepTime 0 counts as 15, and the
\* relational server falls back to prep_time before 15).
C1Amended ==
    Placed =>
        /\ resp.data[1] \in AllStored
        /\ resp.data[1].status = "pending"
        /\ IsMaxPlus5(resp.data[1].estimatedTime,
                      [i \in 1..Len(resp.args.items) |-> C1CountedPrep(resp.args.items[i])])

\* C1 witness: a two-item order where the default 15 beats an explicit 10.
C1Witness ==
    /\ Placed /\ resp.res = "ok"
    /\ resp.args.items = <<Salad, Bread>>
    /\ resp.data[1].estimatedTime = 20

IsPositive(x) == x # None /\ x[1] > 0

\* C2 as stated: a placement with no items or with a table number that is not positive
\* is answered 400, adds no order to either store and publishes nothing.
C2Claim ==
    /\ (resp.op = "place" /\ (resp.args.items = <<>> \/ ~IsPositive(resp.args.tableNo)))
          => (resp.code = 400 /\ resp.events = <<>>)
    /\ \A o \in AllStored : o.tableNo > 0 /\ o.items # <<>>

\* The events of a response with the given name.
Named(ev, name) == {i \in 1..Len(ev) : ev[i].name = name}

Carries(p, f, v) == f \in DOMAIN p /\ p[f] = v
CarriesId(p, o) == Carries(p, "orderId", o.id) \/ Carries(p, "id", o.id)

\* The payload p is the full snapshot of the order o.
FullSnapshot(p, o) ==
    /\ CarriesId(p, o)
    /\ \A f \in {"tableNo", "items", "total", "status", "estimatedTime", "createdAt"} :
          Carries(p, f, o[f])
    /\ o.updatedAt # None /\ Carries(p, "updatedAt", o.updatedAt)

\* Exactly one event of each name, newOrder to the kitchen and orderConfirmed to the
\* room of the table the request named.
C7OneEach(ev, tableNo) ==
    /\ Len(ev) = 2
    /\ \E i \in 1..2 : Named(ev, "newOrder") = {i} /\ ev[i].room = ChefRoom
    /\ \E i \in 1..2 : Named(ev, "orderConfirmed") = {i} /\ ev[i].room = TableRoom(tableNo)

\* C7 as stated: one newOrder to the kitchen, one orderConfirmed to the table's room,
\* both carrying the full order snapshot.
C7Original ==
    (Placed /\ resp.args.tableNo \in {Some(1), Some(2)}) =>
        /\ C7OneEach(resp.events, resp.args.tableNo[1])
        /\ \A i \in 1..Len(resp.events) : FullSnapshot(resp.events[i].payload, resp.data[1])

\* What each server puts in the payload of the event e for the returned order o.
C7Payload(e, o) ==
    IF backend = "mongo" THEN e.payload = o
    ELSE IF e.name = "newOrder"
    THEN /\ DOMAIN e.payload = {"orderId", "tableNo", "items", "total", "status",
                                "createdAt", "estimatedTime"}
         /\ CarriesId(e.payload, o)
         /\ \A f \in {"tableNo", "items", "total", "status", "createdAt", "estimatedTime"} :
               Carries(e.payload, f, o[f])
    ELSE /\ DOMAIN e.payload = {"orderId", "status", "estimatedTime"}
         /\ CarriesId(e.payload, o)
         /\ Carries(e.payload, "status", o.status)
         /\ Carries(e.payload, "estimatedTime", o.estimatedTime)

\* C7 amended: one newOrder to the kitchen and one orderConfirmed to the table's room;
\* the document server sends the returned order in both (without updatedAt on the
\* fallback path); the relational server sends newOrder without updatedAt and
\* orderConfirmed with id, status and estimatedTime only.
C7Amended ==
    Placed =>
        /\ C7OneEach(resp.events, resp.args.tableNo[1])
        /\ \A i \in 1..Len(resp.events) : C7Payload(resp.events[i], resp.data[1])

\* C7 witness: a placement for table 2 through the store, answered with its two events.
C7Witness ==
    /\ Placed /\ resp.res = "ok" /\ resp.args.tableNo = Some(2)
    /\ Len(resp.events) = 2 /\ resp.events[2].room = TableRoom(2)

SixStatuses == {"pending", "confirmed", "preparing", "ready", "served", "cancelled"}

\* Steps seen from outside a handler: r resumed, r2 suspended anew, a response went out.
Stepped(r) == CopiesIn(r, reqs') < CopiesIn(r, reqs)
Entered(r2) == CopiesIn(r2, reqs') > CopiesIn(r2, reqs)
AnsweredAtOnce == nreq' # nreq /\ reqs' = reqs
Responded == AnsweredAtOnce \/ BagCardinality(reqs') < BagCardinality(reqs)

\* C3: a status update with an unrecognized status is answered 400 with no event, and
\* the step that answers it changes no stored order.
C3InvalidStatusRejected ==
    [][ (resp'.op = "update" /\ resp'.args.status \notin SixStatuses) =>
           /\ resp'.code = 400
           /\ resp'.events = <<>>
           /\ (AnsweredAtOnce => orders' = orders /\ inMemoryOrders' = inMemoryOrders) ]_vars

\* C3 witness: an order is stored and an update to "done" was answered 400.
C3Witness ==
    /\ resp.op = "update" /\ resp.args.status = "done" /\ resp.code = 400
    /\ \E o \in orders : matching(backend, orders, resp.args.id) = {o}

\* The id string under which the servers hand out an order.
IdString(o) == IF backend = "postgres" THEN toString(o.id) ELSE o.id

\* C4 as stated: a recognized status on an id no order has is answered 404 (not 400,
\* not 500) with no event.
C4Original ==
    (/\ resp.op = "update" /\ resp.args.status \in SixStatuses
     /\ \A o \in AllStored : IdString(o) # resp.args.id)
        => (resp.code = 404 /\ resp.events = <<>>)

\* The stored orders an update with this id parameter would write.
C4Addressed(rows, id) ==
    IF backend = "postgres" THEN {o \in rows : parseInt(id) = Some(o.id)}
    ELSE {o \in rows : o.id = id}

\* The answer to an update that addresses no stored order.
C4Answer ==
    (/\ resp.op = "update" /\ resp.args.status \in SixStatuses
     /\ C4Addressed(orders, resp.args.id) = {})
        => /\ resp.events = <<>> /\ resp.data = None
           /\ resp.code = IF backend = "postgres" /\ parseInt(resp.args.id) = None THEN 400
                          ELSE IF resp.res = "null" THEN 404 ELSE 500
           /\ (resp.res = "none") = (backend = "postgres" /\ parseInt(resp.args.id) = None)
           /\ (backend = "mongo" /\ ~isValidObjectId(resp.args.id)) => resp.res = "error"

\* C4 amended: an update with a recognized status that addresses no stored order writes
\* nothing and publishes nothing; it is answered 404 when the store call completes,
\* 400 when the relational server finds the id not a number, and 500 when the store
\* call is rejected (store unreachable, or an id the document store cannot cast).
C4Amended ==
    [][ /\ C4Answer'
        /\ \A r \in Suspended :
              (Stepped(r) /\ r.op = "update" /\ C4Addressed(orders, r.args.id) = {})
                 => (orders' = orders /\ inMemoryOrders' = inMemoryOrders) ]_vars

\* C4 witness: an order is stored, and an update of another well-formed id got 404.
C4Witness ==
    /\ orders # {}
    /\ resp.op = "update" /\ resp.code = 404 /\ resp.args.status = "ready"
    /\ \A o \in orders : IdString(o) # resp.args.id

\* The write of a status update: the addressed order then has the requested status and
\* an updatedAt that is later (strictly or not) than the one it had when the request came.
C5Write(strict) ==
    \A r \in Suspended : \A r2 \in BagToSet(reqs') :
        (Stepped(r) /\ Entered(r2) /\ r.op = "update" /\ r.pc = "store" /\ r2.res = "ok")
           => \A o \in C4Addressed(orders', r.args.id) :
                 /\ o.status = r.args.status
                 /\ r.prior # None =>
                       IF strict THEN o.updatedAt[1] > r.prior[1]
                       ELSE o.updatedAt[1] >= r.prior[1]

\* getOrder answers 200 with the order the store holds under that id.
C5Read ==
    (AnsweredAtOnce /\ resp'.op = "get" /\ resp'.code = 200)
       => (resp'.data[1] \in AllStored /\ IdString(resp'.data[1]) = resp'.args.id)

\* C5 as stated, for the document server (its stamp is the Date.now() of the handler):
\* after a successful update the order read back has the new status and an updatedAt
\* strictly later than before the call.
C5Original == [][backend = "mongo" => (C5Write(TRUE) /\ C5Read)]_vars

\* C5 amended: after a successful update the order read back has the new status and an
\* updatedAt not earlier than the one it had when the request was received; the two
\* are equal when the clock has not advanced in between.
C5Amended == [][C5Write(FALSE) /\ C5Read]_vars

\* C5 witness: an order updated after the clock advanced is read back by getOrder.
C5Witness ==
    /\ resp.op = "get" /\ resp.code = 200
    /\ resp.data[1].status = "ready"
    /\ resp.data[1].updatedAt # None /\ resp.data[1].updatedAt[1] > resp.data[1].createdAt

\* C6: every stored order, in the store and in the fallback list, has one of the six
\* statuses.
C6StatusInEnum == \A o \in AllStored : o.status \in SixStatuses

\* C6 witness: a stored order that was cancelled.
C6Witness == \E o \in orders : o.status = "cancelled"

\* C8 as stated: a successful update publishes orderStatusUpdate to the room of the
\* order's table and orderStatusUpdated to the kitchen, each with the order id and the
\* requested status; an update that fails publishes nothing.
C8Claim ==
    /\ (resp.op = "update" /\ resp.code = 200) =>
          /\ Len(resp.events) = 2
          /\ \E i \in 1..2 : /\ Named(resp.events, "orderStatusUpdate") = {i}
                             /\ resp.events[i].room = TableRoom(resp.data[1].tableNo)
          /\ \E i \in 1..2 : /\ Named(resp.events, "orderStatusUpdated") = {i}
                             /\ resp.events[i].room = ChefRoom
          /\ \A i \in 1..2 : /\ CarriesId(resp.events[i].payload, resp.data[1])
                             /\ Carries(resp.events[i].payload, "status", resp.args.status)
    /\ (resp.op = "update" /\ resp.code # 200) => resp.events = <<>>

\* The ids of the stored orders.
StoredIds == {o.id : o \in AllStored}

\* C9: a handler publishes only after the store call it awaited has written (or after
\* the push to the fallback list); when the write failed, it publishes nothing.
C9PublishAfterWrite ==
    [][ /\ \A r2 \in BagToSet(reqs') :
              (Entered(r2) /\ r2.res = "ok") => r2.doc[1] \in orders'
        /\ (Responded /\ resp'.events # <<>>) =>
              /\ \/ \E r \in Suspended : Stepped(r) /\ r.res = "ok" /\ r.args = resp'.args
                 \/ /\ AnsweredAtOnce
                    /\ \E i \in 1..Len(inMemoryOrders') : inMemoryOrders'[i] = resp'.data[1]
              /\ \A i \in 1..Len(resp'.events) :
                    \E o \in AllStored' : CarriesId(resp'.events[i].payload, o)
        /\ resp'.code = 500 => resp'.events = <<>> ]_vars

\* C9 witness: a placement whose insert failed was answered 500 with nothing published,
\* while an earlier order is stored.
C9Witness ==
    /\ resp.op = "place" /\ resp.code = 500 /\ resp.res = "error" /\ resp.events = <<>>
    /\ orders # {}

\* C10: a status update with a recognized status is never rejected for the status the
\* order is in: whatever that is, the write stores the requested status and the handler
\* answers 200.
C10AnyTransition ==
    [][ /\ \A r \in Suspended :
              (/\ Stepped(r) /\ r.op = "update" /\ r.pc = "store" /\ connected
               /\ C4Addressed(orders, r.args.id) # {})
                 => /\ \A o \in C4Addressed(orders', r.args.id) : o.status = r.args.status
                    /\ \E r2 \in BagToSet(reqs') : Entered(r2) /\ r2.res = "ok"
        /\ \A r \in Suspended :
              (Stepped(r) /\ r.op = "update" /\ r.pc = "cont" /\ r.res = "ok" /\ connected)
                 => resp'.code = 200
        /\ (AnsweredAtOnce /\ resp'.op = "update" /\ resp'.args.status \in SixStatuses)
              => (backend = "postgres" /\ parseInt(resp'.args.id) = None) ]_vars

\* C10 witness: an order that one handler set to served (it has not answered yet) has
\* since been set back to pending by another.
C10Witness ==
    \E o \in orders : \E r \in Suspended :
        /\ r.op = "update" /\ r.pc = "cont" /\ r.res = "ok"
        /\ r.doc[1].id = o.id /\ r.doc[1].status = "served"
        /\ o.status = "pending"

\* C11 as stated: every stored order, the fallback list's included, has a created and
\* an updated timestamp, and the created one is not later than the updated one.
C11Claim ==
    \A o \in AllStored : o.updatedAt # None /\ o.createdAt <= o.updatedAt[1]

\* The ids of two orders are the same value.
SameId(o1, o2) == o1.id = o2.id

\* C19 as stated: no two stored orders have the same id, two entries of the fallback
\* list made at the same clock reading included.
C19Claim ==
    /\ \A o1 \in orders : \A o2 \in orders : SameId(o1, o2) => o1 = o2
    /\ \A i \in 1..Len(inMemoryOrders) : \A j \in 1..Len(inMemoryOrders) :
          SameId(inMemoryOrders[i], inMemoryOrders[j]) => i = j
    /\ \A o \in orders : \A i \in 1..Len(inMemoryOrders) : ~SameId(o, inMemoryOrders[i])

\* The events of evs that are sent to a room the connection c is in.
C16Due(evs, c) == SelectSeq(evs, LAMBDA e : e.room \in sockets[c].rooms)

\* A handler ends having emitted events.
C16Publishes == Responded /\ resp'.events # <<>>

\* C16: when a handler publishes, each connection receives, in order, exactly the events
\* sent to the rooms it is in at that moment, and the request is answered 200 or 201
\* also when a room has no member; at every other step no connection receives
\* anything, so a connection that joins a room later never gets an earlier event.
C16RoomDelivery ==
    [][ \A c \in Conns :
           IF C16Publishes
           THEN /\ sockets'[c].inbox = sockets[c].inbox \o C16Due(resp'.events, c)
                /\ sockets'[c].rooms = sockets[c].rooms
                /\ resp'.code \in {200, 201}
           ELSE sockets'[c].inbox = sockets[c].inbox \/ sockets'[c] = NoSocket ]_vars

\* C16 witness: after a placement, a connection that was in the kitchen room has the
\* newOrder event and nothing else, and a connection that is now in the table's room,
\* which had no member when the order was confirmed, has received nothing.
C16Witness ==
    /\ Placed
    /\ \E c1 \in Conns : \E c2 \in Conns :
          /\ sockets[c1].rooms = {ChefRoom}
          /\ Len(sockets[c1].inbox) = 1 /\ sockets[c1].inbox[1].name = "newOrder"
          /\ sockets[c2].rooms = {TableRoom(resp.args.tableNo[1])}
          /\ sockets[c2].inbox = <<>>

\* The fields of an order that stay as they were at creation.
C12Fixed == {"id", "tableNo", "items", "total", "estimatedTime", "createdAt"}
C12SameFixed(o1, o2) == \A f \in C12Fixed : o1[f] = o2[f]

\* The handler r makes its status write in this step.
C12Writes(r) == Stepped(r) /\ r.op = "update" /\ r.pc = "store"

\* C12: no step removes an order or changes its id, table number, items, total,
\* estimated time or created timestamp; the fallback list only grows at its end; a
\* status write adds no order and leaves every order it does not address as it was;
\* and a step that is not a store call leaves the store as it was.
C12Frame ==
    [][ /\ \A o \in orders : \E o2 \in orders' : C12SameFixed(o, o2)
        /\ Len(inMemoryOrders') >= Len(inMemoryOrders)
        /\ \A i \in 1..Len(inMemoryOrders) : inMemoryOrders'[i] = inMemoryOrders[i]
        /\ \A r \in Suspended :
              C12Writes(r) =>
                 /\ Cardinality(orders') = Cardinality(orders)
                 /\ \A o \in orders \ C4Addressed(orders, r.args.id) : o \in orders'
        /\ (\A r \in Suspended : ~(Stepped(r) /\ r.pc = "store")) => orders' = orders ]_vars

\* C12 witness: of two stored orders one was updated to ready after the clock advanced,
\* the other is as it was created.
C12Witness ==
    \E o1 \in orders : \E o2 \in orders :
        /\ o1.id # o2.id
        /\ o1.status = "ready" /\ o1.updatedAt[1] > o1.createdAt
        /\ o2.status = "pending" /\ o2.updatedAt = Some(o2.createdAt)

\* Two updates of the same order are in flight and both have made their write.
C14BothWritten(r1, r2) ==
    /\ r1.op = "update" /\ r1.pc = "cont" /\ r1.res = "ok"
    /\ r2.op = "update" /\ r2.pc = "cont" /\ r2.res = "ok"
    /\ r1.doc[1].id = r2.doc[1].id

\* C14: each status write that finds the order, also one made while another update of
\* the same order is in flight, leaves the order with the status of that write, and no
\* other step changes a stored order, so once the updates have completed the status
\* stored is that of the write applied last; and each update whose write found the
\* order is answered 200 (the relational server, if its second read still reaches
\* the store).
C14LastWriteWins ==
    [][ /\ \A r \in Suspended :
              (C12Writes(r) /\ connected /\ C4Addressed(orders, r.args.id) # {})
                 => /\ \A o \in C4Addressed(orders', r.args.id) : o.status = r.args.status
                    /\ \E r2 \in BagToSet(reqs') : Entered(r2) /\ r2.res = "ok"
        /\ (\A r \in Suspended : ~C12Writes(r)) => \A o \in orders : o \in orders'
        /\ \A r \in Suspended :
              (/\ Stepped(r) /\ r.op = "update" /\ r.pc = "cont" /\ r.res = "ok"
               /\ (backend = "postgres" => connected))
                 => resp'.code = 200 ]_vars

\* C14 witness: two updates of one order, to different statuses, have both written and
\* neither has answered; the order has the status of one of them.
C14Witness ==
    \E r1 \in Suspended : \E r2 \in Suspended :
        /\ C14BothWritten(r1, r2)
        /\ r1.args.status # r2.args.status
        /\ \E o \in orders : o.id = r1.doc[1].id /\ o.status = r2.args.status

\* C20 as stated: a successful update answers with, and publishes in both events, the
\* status it was asked to set, whatever other update ran between its write and its
\* publish.
C20Claim ==
    (resp.op = "update" /\ resp.code = 200) =>
        /\ resp.data[1].status = resp.args.status
        /\ \A i \in 1..Len(resp.events) : resp.events[i].payload.status = resp.args.status

\* C13 as stated: once the store write of a placement or of a status update has
\* succeeded, the request is answered 201 or 200 with the stored order, whether or not
\* the publish that follows fails (for the relational update: provided its second read
\* still reaches the store), and the order stays stored.
C13Claim ==
    [][ \A r \in Suspended :
           (/\ Stepped(r) /\ r.pc = "cont" /\ r.res = "ok"
            /\ (backend = "postgres" /\ r.op = "update") => connected)
              => /\ resp'.code = IF r.op = "place" THEN 201 ELSE 200
                 /\ resp'.data # None /\ resp'.data[1].id = r.doc[1].id
                 /\ \E o \in orders' : o.id = r.doc[1].id ]_vars

\* The id of an order as a listing shows it.
C15Id(p) == IF "orderId" \in DOMAIN p THEN p.orderId ELSE p.id

\* The order o matches the filters of the listing request.
C15Matches(o, args) ==
    /\ args.status # "undefined" => o.status = args.status
    /\ args.tableQuery # <<>> => Some(o.tableNo) = parseInt(args.tableQuery)

\* C15 as stated: a listing that is answered holds exactly the stored orders (fallback
\* orders are stored orders) that match the status filter and the table filter given.
C15Claim ==
    [][ (AnsweredAtOnce /\ resp'.op = "list" /\ resp'.code = 200) =>
           {C15Id(resp'.data[i]) : i \in 1..Len(resp'.data)}
              = {o.id : o \in {x \in AllStored : C15Matches(x, resp'.args)}} ]_vars

\* C17 as stated: a menu listing holds only items that are available and, when a
\* category was asked for, only items of that category, on every path.
C17Claim ==
    (resp.op = "menu" /\ resp.code = 200) =>
        \A i \in 1..Len(resp.data) :
            /\ resp.data[i].available
            /\ resp.args.category # "undefined" => resp.data[i].category = resp.args.category

\* The stored orders whose placement has been answered.
C18Placed ==
    {o \in AllStored : \A r \in Suspended : ~(r.op = "place" /\ r.doc # None /\ r.doc[1].id = o.id)}

\* C18 as stated, for the document server: for an order whose placement was answered
\* with success, whatever the connection state, getOrder with its id answers 200 with
\* it, an unfiltered listing answers 200 and includes it, and a status update finds it
\* and answers 200.
C18Claim ==
    [][ backend = "mongo" =>
          /\ (AnsweredAtOnce /\ resp'.op = "get" /\ \E o \in C18Placed : o.id = resp'.args.id)
                => (resp'.code = 200 /\ resp'.data[1].id = resp'.args.id)
          /\ (/\ AnsweredAtOnce /\ resp'.op = "list"
              /\ resp'.args.status = "undefined" /\ resp'.args.tableQuery = <<>>)
                => \A o \in C18Placed :
                      /\ resp'.code = 200
                      /\ \E i \in 1..Len(resp'.data) : resp'.data[i].id = o.id
          /\ \A r \in Suspended :
                (C12Writes(r) /\ \E o \in C18Placed : o.id = r.args.id)
                   => \E r2 \in BagToSet(reqs') : Entered(r2) /\ r2.res = "ok"
          /\ \A r \in Suspended :
                (Stepped(r) /\ r.op = "update" /\ r.pc = "cont" /\ r.res = "ok")
                   => resp'.code = 200 ]_vars

====
